---- MODULE Spec2Model ----
(***************************************************************************)
(* Model of the ClickHouse gateway (clickhouse_client.py) and the query    *)
(* orchestrator (agent.py: process_clickhouse_query).                      *)
(*                                                                         *)
(* Representation of Python values:                                        *)
(*   - an optional string (the "error" field) is a sequence: <<>> is None, *)
(*     <<s>> is the string s (so <<"">> is the empty string, not None);    *)
(*   - a column name is a sequence of one-character strings, because the   *)
(*     code indexes into it (desc[0]);                                     *)
(*   - a cell value is [t |-> type tag, v |-> payload];                    *)
(*   - a dict is a function from its key set to values;                    *)
(*   - a computation that may raise returns [raised |-> None or <<msg>>,   *)
(*     value |-> ...]; "raised" other than None means the exception left   *)
(*     the function, and then "value" is immaterial.                       *)
(***************************************************************************)
EXTENDS Integers, Sequences, FiniteSets, TLC

VARIABLES
    _instance,  \* ClickHouseClient._instance: NoHandle (None) or a handle id
    connects,   \* number of invocations of clickhouse_connect.get_client
    opened,     \* number of connections the driver has established
    calls,      \* gateway executions made by the last top-level call, in order
    ret,        \* what the last top-level call returned to its caller
    pc,         \* concurrent callers of get_instance: position of each thread
    tmp,        \* ... the handle get_client returned to it, not yet assigned
    got         \* ... the handle get_instance returned to it

vars == <<_instance, connects, opened, calls, ret, pc, tmp, got>>

----------------------------------------------------------------------------
(* Bounds *)

MaxConnects == 2   \* cap on invocations of the driver's connect function
MaxExtra == 1      \* how many rows beyond the cap the largest table has
NThreads == 2      \* concurrent callers of get_instance

(* Program constants *)

RowCap == 100      \* results[:100]

----------------------------------------------------------------------------
(* Python values *)

None == <<>>
Str(s) == <<s>>
NoHandle == 0

\* Python truthiness of an optional string: None and "" are falsy.
Truthy(e) == e # None /\ e # Str("")

Min(a, b) == IF a < b THEN a ELSE b
MaxOf(S) == CHOOSE m \in S : \A k \in S : k <= m

\* Column names, as sequences of characters.
N_1 == <<"1">>
N_table == <<"t", "a", "b", "l", "e">>
N_name == <<"n", "a", "m", "e">>
N_type == <<"t", "y", "p", "e">>
N_row_count == <<"r", "o", "w", "_", "c", "o", "u", "n", "t">>
N_date == <<"d", "a", "t", "e">>
N_clicks == <<"c", "l", "i", "c", "k", "s">>
N_empty == <<>>

----------------------------------------------------------------------------
(* The driver (clickhouse_connect) and the store behind it: the environment *)

schema_query == "SELECT table, name, type FROM system.columns WHERE database = currentDatabase() ORDER BY table, position"
table_stats_query == "SELECT name as table, total_rows as row_count FROM system.tables WHERE database = currentDatabase()"

\* SQL strings the callers pass to process_clickhouse_query / execute_clickhouse_query.
Q_one == "SELECT 1"
Q_columns == "SELECT table, type FROM system.columns"
Q_clicks == "SELECT date, clicks FROM site"
Q_odd == "SELECT odd FROM site"
Q_noname == "SELECT 1 AS noname"
Q_missing == "SELECT * FROM nonexistent_table"
Queries == {Q_one, Q_columns, Q_clicks, Q_odd, Q_noname, Q_missing}

\* Exception messages the driver raises with (str(e)) when it fails on a
\* statement; "" is an exception constructed without a message.  The store
\* has no table for Q_missing, so it rejects it; the introspection statements
\* fail for lack of privileges and Q_clicks by timing out.
ConnectMessages == {"Connection refused"}
Messages(sql) ==
    CASE sql \in {schema_query, table_stats_query} -> {"Not enough privileges"}
      [] sql = Q_missing -> {"", "Unknown table expression identifier"}
      [] sql = Q_clicks -> {"Timeout exceeded"}
      [] OTHER -> {}

\* The cell of row i, column j: distinct per position, so that reordering,
\* dropping or merging is visible.
Cell(kind, i, j) == [t |-> kind, v |-> 10 * i + j]

\* A row as the driver hands it over: a tuple of cells, or (malformed) a
\* value that cannot be iterated.
Row(kinds, i) == [iterable |-> TRUE, cells |-> [j \in 1..Len(kinds) |-> Cell(kinds[j], i, j)]]
MalformedRow == [iterable |-> FALSE, cells |-> <<>>]

\* The content of a QueryResult of the driver is described by its shape: the
\* declared column names, the type of each column, the number of rows, and
\* whether the rows are malformed.
Shape(names, kinds, n, malformed) ==
    [column_names |-> names, kinds |-> kinds, n |-> n, malformed |-> malformed]
NoShape == Shape(<<>>, <<>>, 0, FALSE)

\* result.result_rows
result_rows(shape) ==
    [i \in 1..shape.n |-> IF shape.malformed THEN MalformedRow ELSE Row(shape.kinds, i)]

RowCounts == {0, 1, RowCap, RowCap + MaxExtra}

\* What the store can answer to each statement when it accepts it.  Q_odd
\* yields a value that has an isoformat attribute whose call raises.
StoreResults(sql) ==
    CASE sql = schema_query ->
            {Shape(<<N_table, N_name, N_type>>, <<"str", "str", "str">>, 2, FALSE)}
      [] sql = table_stats_query ->
            {Shape(<<N_table, N_row_count>>, <<"str", "int">>, 1, FALSE)}
      [] sql = Q_one ->
            {Shape(<<N_1>>, <<"int">>, 1, FALSE), Shape(<<N_1>>, <<"int">>, 1, TRUE)}
      [] sql = Q_columns ->
            {Shape(<<N_table, N_type>>, <<"str", "str">>, n, FALSE) : n \in {0, 2}}
      [] sql = Q_clicks ->
            {Shape(<<N_date, N_clicks>>, <<"date", "int">>, n, FALSE) : n \in RowCounts}
      [] sql = Q_odd ->
            {Shape(<<N_date>>, <<"odd">>, 1, FALSE)}
      [] sql = Q_noname ->
            {Shape(<<N_empty>>, <<"int">>, 1, FALSE)}
      [] OTHER -> {}

\* Statements for which the driver may hand back a result object that tests
\* false (line 49 of clickhouse_client.py provides for it).
FalsyResults(sql) == IF sql = Q_one THEN {NoShape} ELSE {}

\* Behaviour of client.query(sql, params) on one invocation: it raises, or it
\* returns a result object.
QueryBehaviours(sql) ==
    {[kind |-> "raise", msg |-> m, shape |-> NoShape] : m \in Messages(sql)}
    \cup {[kind |-> "falsy", msg |-> "", shape |-> r] : r \in FalsyResults(sql)}
    \cup {[kind |-> "rows", msg |-> "", shape |-> r] : r \in StoreResults(sql)}

\* Behaviour of clickhouse_connect.get_client on one invocation.
ConnectBehaviours ==
    {[ok |-> TRUE, msg |-> ""]} \cup {[ok |-> FALSE, msg |-> m] : m \in ConnectMessages}

\* Only the behaviour of a connect that is actually invoked is an input.
ConnectChoices(inst) == IF inst = NoHandle THEN ConnectBehaviours ELSE {[ok |-> TRUE, msg |-> ""]}

\* The environment of one gateway execution.
Env(inst, sql) == {[conn |-> c, query |-> q] : c \in ConnectChoices(inst), q \in QueryBehaviours(sql)}

----------------------------------------------------------------------------
(* clickhouse_client.py *)

\* The gateway's process-wide state, threaded through the calls.
Gateway(inst, nconnects, nopened) == [instance |-> inst, connects |-> nconnects, opened |-> nopened]

\* get_instance without the test of the cached handle: it connects on every call.
get_instance_NoCache(g, conn) ==
    IF conn.ok
    THEN [raised |-> None,
          value |-> g.opened + 1,
          g |-> Gateway(g.opened + 1, g.connects + 1, g.opened + 1)]
    ELSE [raised |-> Str(conn.msg),
          value |-> NoHandle,
          g |-> Gateway(g.instance, g.connects + 1, g.opened)]

\* ClickHouseClient.get_instance: connects only when no handle is cached; a
\* connect that raises leaves _instance as None.  A new connection gets a new
\* handle id.
get_instance(g, conn) ==
    IF g.instance = NoHandle
    THEN IF conn.ok
         THEN [raised |-> None,
               value |-> g.opened + 1,
               g |-> Gateway(g.opened + 1, g.connects + 1, g.opened + 1)]
         ELSE [raised |-> Str(conn.msg),
               value |-> NoHandle,
               g |-> Gateway(NoHandle, g.connects + 1, g.opened)]
    ELSE [raised |-> None, value |-> g.instance, g |-> g]

QueryOutcome(s, r, c, e) == [success |-> s, results |-> r, columns |-> c, error |-> e]

\* [desc[0] for desc in result.column_names]: the first character of each
\* name; IndexError on an empty name.
FirstChars(column_names) ==
    IF \E k \in 1..Len(column_names) : Len(column_names[k]) = 0
    THEN [raised |-> Str("string index out of range"), value |-> <<>>]
    ELSE [raised |-> None,
          value |-> [k \in 1..Len(column_names) |-> <<column_names[k][1]>>]]

\* dict(zip(columns, row)): pairs up to the shorter length; a later pair with
\* the same key overwrites an earlier one.
DictZip(columns, cells) ==
    LET m == Min(Len(columns), Len(cells))
        keys == {columns[k] : k \in 1..m}
    IN [key \in keys |-> cells[MaxOf({k \in 1..m : columns[k] = key})]]

\* [dict(zip(columns, row)) for row in result.result_rows]: TypeError on a
\* row that cannot be iterated.
RowDicts(columns, rows) ==
    IF \E i \in 1..Len(rows) : ~rows[i].iterable
    THEN [raised |-> Str("'int' object is not iterable"), value |-> <<>>]
    ELSE [raised |-> None,
          value |-> [i \in 1..Len(rows) |-> DictZip(columns, rows[i].cells)]]

\* The body of the try block of execute_clickhouse_query.
execute_try(g, sql, env) ==
    LET gi == get_instance(g, env.conn)
    IN IF gi.raised # None
       THEN [raised |-> gi.raised, value |-> QueryOutcome(FALSE, <<>>, <<>>, None), g |-> gi.g]
       ELSE IF env.query.kind = "raise"
       THEN [raised |-> Str(env.query.msg), value |-> QueryOutcome(FALSE, <<>>, <<>>, None), g |-> gi.g]
       ELSE IF env.query.kind = "falsy"
       THEN [raised |-> None, value |-> QueryOutcome(TRUE, <<>>, <<>>, None), g |-> gi.g]
       ELSE LET cols == FirstChars(env.query.shape.column_names)
                rows == RowDicts(cols.value, result_rows(env.query.shape))
            IN IF cols.raised # None
               THEN [raised |-> cols.raised, value |-> QueryOutcome(FALSE, <<>>, <<>>, None), g |-> gi.g]
               ELSE IF rows.raised # None
               THEN [raised |-> rows.raised, value |-> QueryOutcome(FALSE, <<>>, <<>>, None), g |-> gi.g]
               ELSE [raised |-> None,
                     value |-> QueryOutcome(TRUE, rows.value, cols.value, None),
                     g |-> gi.g]

\* except Exception as e: return {"success": False, ..., "error": str(e)}
execute_except(t) ==
    IF t.raised # None
    THEN [raised |-> None, value |-> QueryOutcome(FALSE, <<>>, <<>>, Str(t.raised[1])), g |-> t.g]
    ELSE t

\* execute_clickhouse_query(sql, params=None); the handle it used and the
\* behaviour of the driver are kept for the record of gateway executions.
execute_clickhouse_query(g, sql, env) ==
    LET r == execute_except(execute_try(g, sql, env))
    IN [raised |-> r.raised, value |-> r.value, g |-> r.g,
        call |-> [sql |-> sql, env |-> env, connected |-> r.g.connects - g.connects,
                  handle |-> r.g.instance, raised |-> r.raised, outcome |-> r.value]]

get_schema_info(g, env) == execute_clickhouse_query(g, schema_query, env)

\* get_table_stats issuing the statement of get_schema_info.
get_table_stats_SchemaQuery(g, env) == execute_clickhouse_query(g, schema_query, env)

get_table_stats(g, env) == execute_clickhouse_query(g, table_stats_query, env)

----------------------------------------------------------------------------
(* agent.py *)

AnalysisPackage(q, r, a, e) == [sql_query |-> q, results |-> r, analysis |-> a, error |-> e]

\* A str built by the orchestrator: "" or the fixed prompt text with the
\* results embedded in it.
EmptyText == [text |-> "", embedded |-> <<>>]
analysis_prompt(serialized_results) ==
    [text |-> "Analyze these results and provide: 1. Key findings 2. Notable trends 3. Business implications 4. Areas for investigation Results: ",
     embedded |-> serialized_results]

\* hasattr(value, "isoformat")
HasIsoformat(value) == value.t \in {"date", "odd"}

\* value.isoformat(): a date becomes its ISO-8601 text; the odd value raises.
isoformat(value) ==
    IF value.t = "date"
    THEN [raised |-> None, value |-> [t |-> "str", v |-> value.v]]
    ELSE [raised |-> Str("isoformat failed"), value |-> value]

\* The inner loop: one serialized_row from one row.
serialize_row(row) ==
    IF \E key \in DOMAIN row : HasIsoformat(row[key]) /\ isoformat(row[key]).raised # None
    THEN [raised |-> Str("isoformat failed"), value |-> row]
    ELSE [raised |-> None,
          value |-> [key \in DOMAIN row |->
                        IF HasIsoformat(row[key]) THEN isoformat(row[key]).value ELSE row[key]]]

\* The loop over all of results, without the slice.
Limit_NoCap(results) == results

\* results[:100]
Limit(results) == SubSeq(results, 1, Min(Len(results), RowCap))

\* The outer loop over results[:100].
serialize_results(results) ==
    LET rows == Limit(results)
    IN IF \E i \in 1..Len(rows) : serialize_row(rows[i]).raised # None
       THEN [raised |-> Str("isoformat failed"), value |-> <<>>]
       ELSE [raised |-> None, value |-> [i \in 1..Len(rows) |-> serialize_row(rows[i]).value]]

\* The package returned when introspection failed (lines 55-60).
IntrospectionFailed ==
    AnalysisPackage("", <<>>, EmptyText, Str("Failed to get schema or table information"))

\* The second return statement blanking sql_query.
Package_BlankQuery(query, error, serialized_results) ==
    IF ~Truthy(error) /\ Len(serialized_results) > 0
    THEN AnalysisPackage(query, serialized_results, analysis_prompt(serialized_results), error)
    ELSE AnalysisPackage("", <<>>, EmptyText, error)

\* The second return statement dropping the error of the gateway.
Package_DropError(query, error, serialized_results) ==
    IF ~Truthy(error) /\ Len(serialized_results) > 0
    THEN AnalysisPackage(query, serialized_results, analysis_prompt(serialized_results), error)
    ELSE AnalysisPackage(query, <<>>, EmptyText, None)

\* Lines 78-100: the two return statements after serialization.
Package(query, error, serialized_results) ==
    IF ~Truthy(error) /\ Len(serialized_results) > 0
    THEN AnalysisPackage(query, serialized_results, analysis_prompt(serialized_results), error)
    ELSE AnalysisPackage(query, <<>>, EmptyText, error)

\* Line 54 testing schema_info only.
IntrospectionOk_SchemaOnly(schema_info, table_stats) == schema_info.success

\* Line 54, negated: both introspection outcomes report success.
IntrospectionOk(schema_info, table_stats) == schema_info.success /\ table_stats.success

\* The body of the try block of process_clickhouse_query, statement by
\* statement; each stage receives the values computed so far.  An exception
\* raised by a callee propagates from the point of the call.

\* Lines 64-100: sql_result is in hand.
process_serialize(query, sql_result, ser, log) ==
    IF ser.raised # None
    THEN [raised |-> ser.raised, value |-> IntrospectionFailed, g |-> sql_result.g, calls |-> log]
    ELSE [raised |-> None,
          value |-> Package(query, sql_result.value.error, ser.value),
          g |-> sql_result.g, calls |-> log]

\* Line 63 and what follows it.
process_execute(query, sql_result, log) ==
    IF sql_result.raised # None
    THEN [raised |-> sql_result.raised, value |-> IntrospectionFailed,
          g |-> sql_result.g, calls |-> Append(log, sql_result.call)]
    ELSE process_serialize(query, sql_result, serialize_results(sql_result.value.results),
                           Append(log, sql_result.call))

\* Lines 54-63: both introspection outcomes are in hand.
process_check(query, schema_info, table_stats, e3) ==
    IF table_stats.raised # None
    THEN [raised |-> table_stats.raised, value |-> IntrospectionFailed,
          g |-> table_stats.g, calls |-> <<schema_info.call, table_stats.call>>]
    ELSE IF ~IntrospectionOk(schema_info.value, table_stats.value)
    THEN [raised |-> None, value |-> IntrospectionFailed,
          g |-> table_stats.g, calls |-> <<schema_info.call, table_stats.call>>]
    ELSE process_execute(query, execute_clickhouse_query(table_stats.g, query, e3),
                         <<schema_info.call, table_stats.call>>)

\* Line 52 and what follows it.
process_stats(query, schema_info, e2, e3) ==
    IF schema_info.raised # None
    THEN [raised |-> schema_info.raised, value |-> IntrospectionFailed,
          g |-> schema_info.g, calls |-> <<schema_info.call>>]
    ELSE process_check(query, schema_info, get_table_stats(schema_info.g, e2), e3)

\* Line 51 and what follows it.
process_try(g, query, e1, e2, e3) ==
    process_stats(query, get_schema_info(g, e1), e2, e3)

\* process_clickhouse_query without the except clause.
process_except_Missing(t) == t

\* except Exception as e (lines 101-108).
process_except(t) ==
    IF t.raised # None
    THEN [raised |-> None,
          value |-> AnalysisPackage("", <<>>, EmptyText,
                        Str("An error occurred while processing your query: " \o t.raised[1])),
          g |-> t.g, calls |-> t.calls]
    ELSE t

process_clickhouse_query(g, query, e1, e2, e3) ==
    process_except(process_try(g, query, e1, e2, e3))

----------------------------------------------------------------------------
(* The state machine: a caller makes one call after another *)

NoOutcome == QueryOutcome(TRUE, <<>>, <<>>, None)
NoPackage == AnalysisPackage("", <<>>, EmptyText, None)

Returned(op, query, raised, outcome, package) ==
    [op |-> op, query |-> query, raised |-> raised, outcome |-> outcome, package |-> package]

G == Gateway(_instance, connects, opened)

SetGateway(g) ==
    /\ g.connects <= MaxConnects
    /\ _instance' = g.instance
    /\ connects' = g.connects
    /\ opened' = g.opened

Threads == 1..NThreads

Init ==
    /\ _instance = NoHandle
    /\ connects = 0
    /\ opened = 0
    /\ calls = <<>>
    /\ ret = Returned("none", "", None, NoOutcome, NoPackage)
    /\ pc = [t \in Threads |-> "idle"]
    /\ tmp = [t \in Threads |-> NoHandle]
    /\ got = [t \in Threads |-> NoHandle]

CallExecute ==
    \E sql \in Queries : \E env \in Env(_instance, sql) :
        LET r == execute_clickhouse_query(G, sql, env)
        IN /\ SetGateway(r.g)
           /\ calls' = <<r.call>>
           /\ ret' = Returned("execute_clickhouse_query", sql, r.raised, r.value, NoPackage)
           /\ UNCHANGED <<pc, tmp, got>>

CallGetSchemaInfo ==
    \E env \in Env(_instance, schema_query) :
        LET r == get_schema_info(G, env)
        IN /\ SetGateway(r.g)
           /\ calls' = <<r.call>>
           /\ ret' = Returned("get_schema_info", schema_query, r.raised, r.value, NoPackage)
           /\ UNCHANGED <<pc, tmp, got>>

CallGetTableStats ==
    \E env \in Env(_instance, table_stats_query) :
        LET r == get_table_stats(G, env)
        IN /\ SetGateway(r.g)
           /\ calls' = <<r.call>>
           /\ ret' = Returned("get_table_stats", table_stats_query, r.raised, r.value, NoPackage)
           /\ UNCHANGED <<pc, tmp, got>>

\* The environment of the third execution, which exists only when the call
\* gets that far.
UserEnvAfter(query, schema_info, table_stats) ==
    IF IntrospectionOk(schema_info.value, table_stats.value)
    THEN Env(table_stats.g.instance, query)
    ELSE {[conn |-> [ok |-> TRUE, msg |-> ""],
           query |-> [kind |-> "falsy", msg |-> "", shape |-> NoShape]]}

StatsAfter(schema_info, e2) == get_table_stats(schema_info.g, e2)

UserEnv(g, query, e1, e2) ==
    UserEnvAfter(query, get_schema_info(g, e1), StatsAfter(get_schema_info(g, e1), e2))

CallProcess ==
    \E query \in Queries :
      \E e1 \in Env(_instance, schema_query) :
        \E e2 \in Env(get_schema_info(G, e1).g.instance, table_stats_query) :
          \E e3 \in UserEnv(G, query, e1, e2) :
            LET r == process_clickhouse_query(G, query, e1, e2, e3)
            IN /\ SetGateway(r.g)
               /\ calls' = r.calls
               /\ ret' = Returned("process_clickhouse_query", query, r.raised, NoOutcome, r.value)
               /\ UNCHANGED <<pc, tmp, got>>

Next ==
    \/ CallExecute
    \/ CallGetSchemaInfo
    \/ CallGetTableStats
    \/ CallProcess

Spec == Init /\ [][Next]_vars

----------------------------------------------------------------------------
(* Concurrent callers of ClickHouseClient.get_instance.  The method takes   *)
(* no lock, so its statements interleave: the test of line 16, the call of  *)
(* the driver in lines 17-24, the assignment of line 17 and the read of     *)
(* line 25 are separate steps of each thread.                               *)

\* A thread calls get_instance.
Enter(t) ==
    /\ pc[t] \in {"idle", "done"}
    /\ pc' = [pc EXCEPT ![t] = "test"]
    /\ tmp' = [tmp EXCEPT ![t] = NoHandle]
    /\ got' = [got EXCEPT ![t] = NoHandle]
    /\ UNCHANGED <<_instance, connects, opened, calls, ret>>

\* Line 16: if cls._instance is None
Test(t) ==
    /\ pc[t] = "test"
    /\ pc' = [pc EXCEPT ![t] = IF _instance = NoHandle THEN "connect" ELSE "load"]
    /\ UNCHANGED <<_instance, connects, opened, calls, ret, tmp, got>>

\* Lines 17-24: clickhouse_connect.get_client(...) returns a new handle or
\* raises; a raise ends the call without a handle.
Connect(t) ==
    /\ pc[t] = "connect"
    /\ connects < MaxConnects
    /\ \E conn \in ConnectBehaviours :
          /\ connects' = connects + 1
          /\ IF conn.ok
             THEN /\ opened' = opened + 1
                  /\ tmp' = [tmp EXCEPT ![t] = opened + 1]
                  /\ pc' = [pc EXCEPT ![t] = "store"]
             ELSE /\ pc' = [pc EXCEPT ![t] = "done"]
                  /\ UNCHANGED <<opened, tmp>>
    /\ UNCHANGED <<_instance, calls, ret, got>>

\* Line 17: cls._instance = <the new handle>
Store(t) ==
    /\ pc[t] = "store"
    /\ _instance' = tmp[t]
    /\ pc' = [pc EXCEPT ![t] = "load"]
    /\ UNCHANGED <<connects, opened, calls, ret, tmp, got>>

\* Line 25: return cls._instance
Load(t) ==
    /\ pc[t] = "load"
    /\ got' = [got EXCEPT ![t] = _instance]
    /\ pc' = [pc EXCEPT ![t] = "done"]
    /\ UNCHANGED <<_instance, connects, opened, calls, ret, tmp>>

NextConc ==
    \E t \in Threads :
        \/ Enter(t)
        \/ Test(t)
        \/ Connect(t)
        \/ Store(t)
        \/ Load(t)

SpecConc == Init /\ [][NextConc]_vars

----------------------------------------------------------------------------
(* Properties *)

IsProcess == ret.op = "process_clickhouse_query"

\* The record of the execution of the user query in the last call of
\* process_clickhouse_query, when the call got that far.
RanUserQuery == IsProcess /\ Len(calls) = 3

\* The store accepted the statement of gateway execution k and answered with
\* a non-empty, well-formed table.
Answered(k) ==
    /\ calls[k].handle # NoHandle
    /\ calls[k].env.query.kind = "rows"
    /\ calls[k].env.query.shape.n > 0
    /\ ~calls[k].env.query.shape.malformed

\* C1: every QueryOutcome returned by the gateway has: success = false implies
\* results and columns empty and error a non-empty string; success = true
\* implies error is null.
C1_OutcomeInvariant ==
    \A k \in DOMAIN calls :
        LET o == calls[k].outcome
        IN /\ ~o.success => (o.results = <<>> /\ o.columns = <<>> /\ o.error # None /\ o.error # Str(""))
           /\ o.success => o.error = None

\* C2: when get_schema_info or get_table_stats reports success = false,
\* process_clickhouse_query returns the fixed package with the error "Failed to
\* get schema or table information" and the user query was executed zero times.
C2_ShortCircuit ==
    (IsProcess /\ \E k \in DOMAIN calls :
                     /\ calls[k].sql \in {schema_query, table_stats_query}
                     /\ k <= 2
                     /\ ~calls[k].outcome.success)
    => /\ ret.raised = None
       /\ ret.package = [sql_query |-> "", results |-> <<>>, analysis |-> EmptyText,
                         error |-> Str("Failed to get schema or table information")]
       /\ Len(calls) = 2
       /\ calls[1].sql = schema_query
       /\ calls[2].sql = table_stats_query

C2_Witness ==
    /\ IsProcess
    /\ Len(calls) = 2
    /\ calls[1].outcome.success
    /\ ~calls[2].outcome.success
    /\ ret.package.error = Str("Failed to get schema or table information")

\* The row of the package that corresponds to a row of the gateway: the same
\* keys, date values as their ISO text, other values unchanged.
Normalized(row) ==
    [key \in DOMAIN row |->
        IF row[key].t = "date" THEN [t |-> "str", v |-> row[key].v] ELSE row[key]]

FirstRowsInOrder(results, gateway_rows) ==
    /\ Len(results) = Min(Len(gateway_rows), 100)
    /\ \A i \in 1..Len(results) : results[i] = Normalized(gateway_rows[i])

\* C3 as stated: for every user query whose execution succeeds with n rows the
\* package has exactly the first min(n, 100) rows in gateway order, and no
\* package has more than 100 rows.
C3_Original ==
    /\ IsProcess => Len(ret.package.results) <= 100
    /\ (RanUserQuery /\ calls[3].outcome.success)
       => FirstRowsInOrder(ret.package.results, calls[3].outcome.results)

\* Some value among the first 100 rows of the gateway has an isoformat method
\* that raises.
NormalizationRaises(gateway_rows) ==
    \E i \in 1..Min(Len(gateway_rows), 100) :
        \E key \in DOMAIN gateway_rows[i] : gateway_rows[i][key].t = "odd"

\* C3 amended: the same, provided no isoformat call on the first min(n, 100)
\* rows raises; when one raises, results is empty.
C3_RowCap ==
    /\ IsProcess => Len(ret.package.results) <= 100
    /\ (RanUserQuery /\ calls[3].outcome.success)
       => IF NormalizationRaises(calls[3].outcome.results)
          THEN ret.package.results = <<>>
          ELSE FirstRowsInOrder(ret.package.results, calls[3].outcome.results)

C3_Witness ==
    /\ RanUserQuery
    /\ calls[3].outcome.success
    /\ Len(calls[3].outcome.results) > 100
    /\ Len(ret.package.results) = 100
    /\ ret.package.results[100][<<"d">>] = [t |-> "str", v |-> 1001]

\* The store rejected the user query of the last call of process_clickhouse_query.
UserQueryRejected == RanUserQuery /\ calls[3].env.query.kind = "raise"

\* C4 as stated: when introspection succeeds and the store rejects the user
\* query, the package has sql_query = "", results = [], analysis = "" and
\* error equal to the non-empty driver message.
C4_Original ==
    UserQueryRejected
    => /\ ret.package.sql_query = ""
       /\ ret.package.results = <<>>
       /\ ret.package.analysis = EmptyText
       /\ ret.package.error = Str(calls[3].env.query.msg)
       /\ calls[3].env.query.msg # ""

\* C4 amended: in that case the package has sql_query equal to the input
\* query, results = [], analysis = "" and error equal to the message of the
\* driver, as a string.
C4_RejectedQuery ==
    UserQueryRejected
    => /\ ret.package.sql_query = ret.query
       /\ ret.package.results = <<>>
       /\ ret.package.analysis = EmptyText
       /\ ret.package.error = Str(calls[3].env.query.msg)

C4_Witness ==
    /\ UserQueryRejected
    /\ ret.query = Q_missing
    /\ ret.package.sql_query = Q_missing
    /\ ret.package.error = Str("Unknown table expression identifier")

\* C5: no exception leaves execute_clickhouse_query or process_clickhouse_query:
\* every call returns a value (a QueryOutcome, respectively a package with the
\* fields sql_query, results, analysis, error), and a connection failure
\* yields success = false.
C5_NoExceptionEscapes ==
    /\ ret.raised = None
    /\ \A k \in DOMAIN calls :
          /\ calls[k].raised = None
          /\ DOMAIN calls[k].outcome = {"success", "results", "columns", "error"}
          /\ (calls[k].connected = 1 /\ ~calls[k].env.conn.ok) => ~calls[k].outcome.success
    /\ IsProcess => DOMAIN ret.package = {"sql_query", "results", "analysis", "error"}

C5_Witness ==
    /\ RanUserQuery
    /\ calls[3].outcome.success
    /\ NormalizationRaises(calls[3].outcome.results)
    /\ ret.raised = None
    /\ ret.package.error = Str("An error occurred while processing your query: isoformat failed")

\* C6: in a sequential series of calls at most one connection is ever opened;
\* a handle is cached exactly when a connection has been opened; a call made
\* while no handle is cached invokes the connect function of the driver in its
\* first gateway execution (the connection is opened lazily, by the first call
\* whose connect succeeds); and once a handle is cached every later gateway
\* execution uses that handle and connect is not invoked again.
C6_SingleConnection ==
    /\ [](opened <= 1 /\ (_instance = NoHandle <=> opened = 0))
    /\ [][_instance = NoHandle => calls'[1].connected = 1]_vars
    /\ [][_instance # NoHandle =>
            /\ _instance' = _instance
            /\ connects' = connects
            /\ opened' = opened
            /\ \A k \in DOMAIN calls' : calls'[k].handle = _instance /\ calls'[k].connected = 0]_vars

C6_Witness ==
    /\ RanUserQuery
    /\ connects = 2
    /\ opened = 1
    /\ \A k \in DOMAIN calls : calls[k].connected = 0 /\ calls[k].handle = 1

\* C7: a call of process_clickhouse_query makes at most three gateway
\* executions, in the order schema, table stats, user query, each at most
\* once, and a failed execution shows in the package of that call.
C7_ExecutionOrder ==
    IsProcess
    => /\ Len(calls) \in {2, 3}
       /\ calls[1].sql = schema_query
       /\ calls[2].sql = table_stats_query
       /\ Len(calls) = 3 => calls[3].sql = ret.query
       /\ (\E k \in DOMAIN calls : ~calls[k].outcome.success)
          => (ret.package.error # None /\ ret.package.results = <<>>)

C7_Witness ==
    /\ RanUserQuery
    /\ ~calls[3].outcome.success
    /\ ret.package.error = calls[3].outcome.error
    /\ ret.package.error # None

\* C8: for every statement the store accepts and answers with rows, the
\* outcome has success = true, columns equal to the declared column names in
\* order, and one mapping per row, in order, whose keys are exactly the
\* declared names, each mapped to the value of that column in that row.
C8_ResultShape ==
    \A k \in DOMAIN calls :
        Answered(k)
        => LET shape == calls[k].env.query.shape
               o == calls[k].outcome
           IN /\ o.success
              /\ o.columns = shape.column_names
              /\ Len(o.results) = shape.n
              /\ \A i \in 1..Len(o.results) :
                    /\ DOMAIN o.results[i] = {shape.column_names[j] : j \in 1..Len(shape.column_names)}
                    /\ \A j \in 1..Len(shape.column_names) :
                          shape.column_names[j] \in DOMAIN o.results[i]
                          => o.results[i][shape.column_names[j]] = Cell(shape.kinds[j], i, j)

\* C9: in every package, results is non-empty iff analysis is non-empty;
\* non-empty results imply error = null and sql_query = the input query; and
\* when the gateway reported an error for the user query or returned no rows,
\* results and analysis are empty and error is the error value of the gateway.
C9_PackageShape ==
    IsProcess
    => /\ (ret.package.results # <<>>) <=> (ret.package.analysis.text # "")
       /\ ret.package.results # <<>>
          => (ret.package.error = None /\ ret.package.sql_query = ret.query)
       /\ (RanUserQuery /\ (calls[3].outcome.error # None \/ calls[3].outcome.results = <<>>))
          => /\ ret.package.results = <<>>
             /\ ret.package.analysis = EmptyText
             /\ ret.package.error = calls[3].outcome.error

C9_Witness ==
    /\ RanUserQuery
    /\ calls[3].outcome.success
    /\ calls[3].outcome.results = <<>>
    /\ ret.package.error = None
    /\ ret.package.results = <<>>

\* C10: when several callers invoke get_instance concurrently before a handle
\* is cached, at most one connection is established and all callers end up
\* with the same handle.
C10_OneConnectionConcurrently ==
    /\ opened <= 1
    /\ \A t1, t2 \in Threads :
          (pc[t1] = "done" /\ pc[t2] = "done" /\ got[t1] # NoHandle /\ got[t2] # NoHandle)
          => got[t1] = got[t2]

====
